---- MODULE Spec2Model ----
(***************************************************************************)
(* Worker-pool supervisor of master.py (start-up, monitoring loop,         *)
(* restart_worker, cleanup on SIGINT) together with the worker processes   *)
(* it spawns (trakheesi_worker.py: open the log, use the profile, emit one *)
(* marker token per job attempt) and the file system they share (profile   *)
(* directories, log files, master profile).                                *)
(*                                                                         *)
(* The supervisor is one sequential process whose position is pc.  Worker  *)
(* processes, the release of file handles and SIGINT are asynchronous.     *)
(***************************************************************************)
EXTENDS Integers, Sequences, FiniteSets

\* ---------------------------------------------------------------- bounds
\* Marker tokens the worker processes of the pool emit in one run.
MaxTokens == 2
\* Restarts check_and_restart_workers starts in one run.
MaxRestarts == 2
\* Job attempts one worker loop completes in one run.
MaxAttempts == 3
\* Jobs in one response of the job source.
MaxBatch == 2

\* --------------------------------------------------- inputs (command line)
\* -n / --workers
WorkerCounts == {1, 2}
\* --restart-threshold
Thresholds == {0, 1, 2}
\* --min-rate (per cent)
Rates == {50, 75}

\* retries parameter of clean_worker_profile (default)
retries == 3

\* --restart-every of trakheesi_worker.py
RestartEvery == {0, 1, 2}
\* report_every of run_worker
report_every == 10

VARIABLES
    pc,                 \* control point of the supervisor
    cur,                \* loop variable i / worker_id of the running loop
    attempt,            \* loop variable of clean_worker_profile
    restarted,          \* local list of check_and_restart_workers
    snap,               \* current_success / current_failed of restart_worker
    processes,          \* local list of start_workers
    new_proc,           \* local new_proc of restart_worker (0: none)
    num_workers,
    restart_threshold,
    min_success_rate,
    running,
    worker_processes,   \* sequence of process handles (generation numbers)
    worker_restarts,
    worker_cumulative,
    proc,               \* proc[i][g]: state of the g-th process of slot i
    sig,                \* sig[i][g]: strongest signal pending on that process
    jobs,               \* jobs[i][g]: jobs_processed / jobs_failed of that process
    profile,            \* profile[i]: working profile directory of slot i
    locked,             \* locked[i]: files of profile i are held open
    log,                \* log[i]: logs/worker_i.log, NoLog when absent
    master,             \* the master profile directory exists
    pre_cumulative,     \* history: worker_cumulative[cur] on entry to restart_worker
    stop_pc,            \* history: phase in which SIGINT or an exception stopped the run
    \* ---- one worker loop in detail (run_worker of trakheesi_worker.py)
    wpc,                \* control point of the loop
    job_list,           \* jobs of the current response still to iterate (for job in jobs)
    jobs_processed,
    jobs_failed,
    jobs_since_restart,
    jobs_since_report,
    restart_every,
    use_profile,
    out,                \* marker glyphs in the output stream so far
    token,              \* history: the marker the last job attempt printed
    served,             \* history: job attempts the current browser session served
    poll_err            \* history: the last poll failed and no backoff followed yet

vars == <<pc, cur, attempt, restarted, snap, processes, new_proc, num_workers,
          restart_threshold, min_success_rate, running, worker_processes,
          worker_restarts, worker_cumulative, proc, sig, jobs, profile,
          locked, log, master, pre_cumulative, stop_pc,
          wpc, job_list, jobs_processed, jobs_failed, jobs_since_restart,
          jobs_since_report, restart_every, use_profile, out, token, served,
          poll_err>>

supVars == <<pc, cur, attempt, restarted, snap, processes, new_proc, running,
             worker_processes, worker_restarts, worker_cumulative,
             pre_cumulative, stop_pc>>

cfgVars == <<num_workers, restart_threshold, min_success_rate>>

loopVars == <<wpc, job_list, jobs_processed, jobs_failed, jobs_since_restart,
              jobs_since_report, restart_every, use_profile, out, token, served,
              poll_err>>

poolVars == <<supVars, cfgVars, proc, sig, jobs, profile, locked, log, master>>

\* ---------------------------------------------------------------- helpers
SetMax(S) == CHOOSE x \in S : \A y \in S : y <= x

AllSlots == 1..SetMax(WorkerCounts)

Gens == 1..(MaxRestarts + 1)

Slots == 1..num_workers

\* The value of log[i] when the file does not exist.
NoLog == [success |-> -1, failed |-> -1]

Zero == [success |-> 0, failed |-> 0]

Stats(s, f) == [success |-> s, failed |-> f]

Add(a, b) == [success |-> a.success + b.success, failed |-> a.failed + b.failed]

Total(a) == a.success + a.failed

Alive(i, g) == proc[i][g] \in {"starting", "running"}

AliveGens(i) == {g \in Gens : Alive(i, g)}

Spawned(i) == {g \in Gens : proc[i][g] # "none"}

RECURSIVE SumUpTo(_, _)
SumUpTo(f, n) == IF n = 0 THEN 0 ELSE f[n] + SumUpTo(f, n - 1)

\* The profile directory a worker process of slot worker_id runs on.
get_profile_dir(worker_id) == worker_id

\* Tokens emitted in slot i over every process lifetime: each process prints
\* one glyph per job it counts.
Emitted(i) ==
    [success |-> SumUpTo([g \in Gens |-> jobs[i][g].success], MaxRestarts + 1),
     failed |-> SumUpTo([g \in Gens |-> jobs[i][g].failed], MaxRestarts + 1)]

\* Mutant of parse_log_stats: the tokens of every process of the slot are
\* counted, the stream is never begun anew.
parse_log_stats_all_runs(i) == Emitted(i)

\* parse_log_stats: (0,0) when the file is absent, else the glyph counts.
parse_log_stats(i) == IF log[i] = NoLog THEN Zero ELSE log[i]

\* rate < min_success_rate, with rate = success*100/total, 0.0 on no sample.
\* The quotient is compared by cross-multiplication (total > 0).
BelowMinRate(s) ==
    IF Total(s) > 0
    THEN s.success * 100 < min_success_rate * Total(s)
    ELSE 0 < min_success_rate

\* Mutant of ShouldRestart: the sample-size gate is left out.
ShouldRestartNoGate(s) == BelowMinRate(s)

\* Mutant of ShouldRestart: a worker whose process is dead is respawned too.
ShouldRestartOrDead(s) ==
    \/ Total(s) >= restart_threshold /\ BelowMinRate(s)
    \/ proc[cur][worker_processes[cur]] = "exited"

\* The restart condition of check_and_restart_workers.
ShouldRestart(s) == Total(s) >= restart_threshold /\ BelowMinRate(s)

\* EffectiveStats of display_stats: live + cumulative.
Effective(i) == Add(parse_log_stats(i), worker_cumulative[i])

\* Tokens emitted in the whole pool.
TotalEmitted == SumUpTo([i \in AllSlots |-> Total(Emitted(i))], SetMax(WorkerCounts))

\* Processes spawned in the whole pool.
TotalSpawned == SumUpTo([i \in AllSlots |-> Cardinality(Spawned(i))], SetMax(WorkerCounts))

Count(seq, x) == Cardinality({k \in 1..Len(seq) : seq[k] = x})

\* The detailed worker loop is not followed: its variables rest.
LoopOff ==
    /\ wpc = "off"
    /\ job_list = <<>>
    /\ jobs_processed = 0
    /\ jobs_failed = 0
    /\ jobs_since_restart = 0
    /\ jobs_since_report = 0
    /\ restart_every = 0
    /\ use_profile = TRUE
    /\ out = Zero
    /\ token = "none"
    /\ served = 0
    /\ poll_err = FALSE

\* --------------------------------------------------------------- initial
\* The state when main() has parsed its arguments, installed the SIGINT
\* handler and setup_master_profile() has returned: the master profile
\* exists; working profiles and logs of an earlier run may be left over.
Init ==
    /\ pc = "clean_profiles"
    /\ cur = 1
    /\ attempt = 0
    /\ restarted = <<>>
    /\ snap = Zero
    /\ processes = <<>>
    /\ new_proc = 0
    /\ num_workers \in WorkerCounts
    /\ restart_threshold \in Thresholds
    /\ min_success_rate \in Rates
    /\ running = TRUE
    /\ worker_processes = <<>>
    /\ worker_restarts = <<>>
    /\ worker_cumulative = <<>>
    /\ proc = [i \in AllSlots |-> [g \in Gens |-> "none"]]
    /\ sig = [i \in AllSlots |-> [g \in Gens |-> "none"]]
    /\ jobs = [i \in AllSlots |-> [g \in Gens |-> Zero]]
    /\ \E left \in BOOLEAN :
          /\ profile = [i \in AllSlots |-> IF left THEN "used" ELSE "absent"]
          /\ log = [i \in AllSlots |-> IF left THEN Stats(1, 1) ELSE NoLog]
    /\ locked = [i \in AllSlots |-> FALSE]
    /\ master = TRUE
    /\ pre_cumulative = Zero
    /\ stop_pc = "none"
    /\ LoopOff


\* The supervisor has ended; the model follows the pool no further.
Stopped == pc \in {"crashed", "exited"}

\* The control points of the monitoring loop of main() (display_stats,
\* check_and_restart_workers, restart_worker); the others are start-up.
CyclePcs == {"check", "display", "rw_fold", "rw_terminate", "rw_wait",
             "rw_wait_kill", "rw_settle", "rw_clean", "rw_create", "rw_spawn",
             "rw_store"}

Phase(p) == IF p \in CyclePcs THEN "cycle" ELSE "startup"

\* cleanup() is running (SIGINT was delivered).
InCleanup == pc \in {"cl_terminate", "cl_wait", "cl_remove"}

\* ------------------------------------------------------- worker processes
\* trakheesi_worker.py main(): open the log file with mode "w" (created or
\* truncated), then run_worker: get_profile_dir and create_browser launch the
\* persistent context on the worker's profile directory, which holds its files.
\* A process that was sent SIGKILL runs no further code.
WorkerStart(i, g) ==
    /\ ~Stopped
    /\ proc[i][g] = "starting"
    /\ sig[i][g] # "kill"
    /\ proc' = [proc EXCEPT ![i][g] = "running"]
    /\ log' = [log EXCEPT ![i] = Zero]
    /\ profile' = [profile EXCEPT ![get_profile_dir(i)] = "used"]
    /\ locked' = [locked EXCEPT ![get_profile_dir(i)] = TRUE]
    /\ UNCHANGED <<supVars, cfgVars, loopVars, sig, jobs, master>>

\* run_worker: one completed job attempt prints exactly one glyph to the log.
\* Nothing reads the logs once cleanup() runs; emissions are followed until then.
WorkerEmit(i, g, ok) ==
    /\ ~Stopped
    /\ ~InCleanup
    /\ proc[i][g] = "running"
    /\ sig[i][g] # "kill"
    /\ TotalEmitted < MaxTokens
    /\ LET t == IF ok THEN Stats(1, 0) ELSE Stats(0, 1)
       IN /\ jobs' = [jobs EXCEPT ![i][g] = Add(@, t)]
          /\ log' = [log EXCEPT ![i] = IF @ = NoLog THEN NoLog ELSE Add(@, t)]
    /\ UNCHANGED <<supVars, cfgVars, loopVars, proc, sig, profile, locked, master>>

\* The process ends: on a signal it was sent, or on its own (a crash).
\* sig records the signals pending on a live process only.
WorkerExit(i, g) ==
    /\ ~Stopped
    /\ Alive(i, g)
    /\ proc' = [proc EXCEPT ![i][g] = "exited"]
    /\ sig' = [sig EXCEPT ![i][g] = "none"]
    /\ UNCHANGED <<supVars, cfgVars, loopVars, jobs, profile, locked, log, master>>

\* The operating system releases the file handles of a dead browser some
\* time after the process ended (the reason for the sleeps and retries).
ReleaseFiles(d) ==
    /\ ~Stopped
    /\ locked[d]
    /\ \A i \in AllSlots : get_profile_dir(i) = d => AliveGens(i) = {}
    /\ locked' = [locked EXCEPT ![d] = FALSE]
    /\ UNCHANGED <<supVars, cfgVars, loopVars, proc, sig, jobs, profile, log, master>>

\* The master profile is removed from outside while the pool runs.  Only
\* create_worker_profile reads it, so a removal at any earlier moment is the
\* same as one right before that read.
RemoveMaster ==
    /\ pc \in {"create_profiles", "rw_create"}
    /\ master
    /\ master' = FALSE
    /\ UNCHANGED <<supVars, cfgVars, loopVars, proc, sig, jobs, profile, locked, log>>

\* ------------------------------------------------- supervisor: primitives
\* An exception no handler catches: it leaves main() and ends the
\* supervisor; cleanup() is not run (only the SIGINT handler calls it).
Raise ==
    /\ pc' = "crashed"
    /\ stop_pc' = Phase(pc)

\* Mutant of LogAfterClean: the log file is not removed.
LogKept(w) == log

\* log_file.unlink() at the end of clean_worker_profile.
LogAfterClean(w) == [log EXCEPT ![w] = NoLog]

\* Mutant of clean_worker_profile: the forced delete follows the first failure.
clean_worker_profile_no_retry(w, done) ==
    \/ /\ profile[w] = "absent"
       /\ log' = LogAfterClean(w)
       /\ done
       /\ UNCHANGED profile
    \/ /\ profile[w] # "absent"
       /\ profile' = [profile EXCEPT ![w] = IF locked[w] THEN @ ELSE "absent"]
       /\ log' = LogAfterClean(w)
       /\ done

\* Mutant of clean_worker_profile: no exists() check, a missing directory raises.
clean_worker_profile_must_exist(w, done) ==
    \/ /\ profile[w] = "absent"
       /\ pc' = "crashed"
       /\ UNCHANGED <<cur, attempt, profile, log>>
    \/ /\ attempt < retries
       /\ profile[w] # "absent"
       /\ ~locked[w]
       /\ profile' = [profile EXCEPT ![w] = "absent"]
       /\ log' = LogAfterClean(w)
       /\ done
    \/ /\ attempt < retries
       /\ profile[w] # "absent"
       /\ locked[w]
       /\ attempt' = attempt + 1
       /\ UNCHANGED <<pc, cur, profile, log>>
    \/ /\ attempt = retries
       /\ profile[w] # "absent"
       /\ profile' = [profile EXCEPT ![w] = IF locked[w] THEN @ ELSE "absent"]
       /\ log' = LogAfterClean(w)
       /\ done

\* clean_worker_profile(w), one attempt per step.  attempt < retries: an
\* ordinary shutil.rmtree, which fails while files are held; attempt =
\* retries: the forced rmtree(ignore_errors=True) of the last except branch.
\* done is what the caller does next, the value it leaves in attempt included
\* (attempt counts the ordinary attempts that failed).
clean_worker_profile(w, done) ==
    \/ /\ attempt = 0
       /\ profile[w] = "absent"
       /\ log' = LogAfterClean(w)
       /\ done
       /\ UNCHANGED profile
    \/ /\ attempt < retries
       /\ profile[w] # "absent"
       /\ ~locked[w]
       /\ profile' = [profile EXCEPT ![w] = "absent"]
       /\ log' = LogAfterClean(w)
       /\ done
    \/ /\ attempt < retries
       /\ profile[w] # "absent"
       /\ locked[w]
       /\ attempt' = attempt + 1
       /\ UNCHANGED <<pc, cur, profile, log>>
    \/ /\ attempt = retries
       /\ profile' = [profile EXCEPT ![w] = IF locked[w] THEN @ ELSE "absent"]
       /\ log' = LogAfterClean(w)
       /\ done

\* Mutant of CanCopy: the copy merges into an existing destination.
CanCopyMerge(w) == master

\* Mutant of CanCopy: a missing master is not an error.
CanCopyNoMaster(w) == profile[w] = "absent"

\* shutil.copytree(MASTER_PROFILE, worker_profile) succeeds iff the source
\* exists and the destination does not.
CanCopy(w) == master /\ profile[w] = "absent"

\* The destination after a copy that did not raise.
ProfileAfterCopy(w) == IF profile[w] = "absent" THEN "fresh" ELSE profile[w]

\* The generation number of the next process of slot w.
NextGen(w) == Cardinality(Spawned(w)) + 1

\* ---------------------------------------------------- supervisor: start-up
\* clean_worker_profiles(num_workers)
CleanProfiles ==
    /\ pc = "clean_profiles"
    /\ clean_worker_profile(cur,
          /\ attempt' = 0
          /\ IF cur < num_workers
             THEN pc' = pc /\ cur' = cur + 1
             ELSE pc' = "create_profiles" /\ cur' = 1)
    /\ UNCHANGED <<restarted, snap, processes, new_proc, running,
                   worker_processes, worker_restarts, worker_cumulative,
                   pre_cumulative, stop_pc,
                   cfgVars, loopVars, proc, sig, jobs, locked, master>>

\* create_worker_profiles(num_workers)
CreateProfiles ==
    /\ pc = "create_profiles"
    /\ IF CanCopy(cur)
       THEN /\ profile' = [profile EXCEPT ![cur] = ProfileAfterCopy(cur)]
            /\ IF cur < num_workers
               THEN pc' = pc /\ cur' = cur + 1
               ELSE pc' = "start_workers" /\ cur' = 1
            /\ UNCHANGED stop_pc
       ELSE Raise /\ UNCHANGED <<cur, profile>>
    /\ UNCHANGED <<attempt, restarted, snap, processes, new_proc, running,
                   worker_processes, worker_restarts, worker_cumulative,
                   pre_cumulative,
                   cfgVars, loopVars, proc, sig, jobs, locked, log, master>>

\* start_workers: one start_single_worker per iteration, the handle appended
\* to the local list.
StartWorkers ==
    /\ pc = "start_workers"
    /\ \/ /\ proc' = [proc EXCEPT ![cur][NextGen(cur)] = "starting"]
          /\ processes' = Append(processes, NextGen(cur))
          /\ IF cur < num_workers
             THEN pc' = pc /\ cur' = cur + 1
             ELSE pc' = "sw_assign" /\ cur' = 1
          /\ UNCHANGED stop_pc
       \/ /\ Raise
          /\ UNCHANGED <<proc, processes, cur>>
    /\ UNCHANGED <<attempt, restarted, snap, new_proc, running,
                   worker_processes, worker_restarts, worker_cumulative,
                   pre_cumulative,
                   cfgVars, loopVars, sig, jobs, profile, locked, log, master>>

\* start_workers, after its loop: the globals are assigned; main() goes on
\* to the monitoring loop.
StartWorkersAssign ==
    /\ pc = "sw_assign"
    /\ worker_processes' = processes
    /\ processes' = <<>>
    /\ worker_restarts' = [k \in 1..num_workers |-> 0]
    /\ worker_cumulative' = [k \in 1..num_workers |-> Zero]
    /\ pc' = "check"
    /\ cur' = 1
    /\ restarted' = <<>>
    /\ UNCHANGED <<attempt, snap, new_proc, running,
                   pre_cumulative, stop_pc,
                   cfgVars, loopVars, proc, sig, jobs, profile, locked, log, master>>


\* ------------------------------------------- supervisor: monitoring cycle
\* What follows one iteration of the loop of check_and_restart_workers.
NextWorker ==
    IF cur < num_workers
    THEN pc' = "check" /\ cur' = cur + 1
    ELSE pc' = "display" /\ cur' = cur

\* check_and_restart_workers, one worker: parse its log and decide.
Evaluate ==
    /\ pc = "check"
    /\ LET s == parse_log_stats(cur)
       IN IF ShouldRestart(s)
          THEN /\ TotalSpawned < num_workers + MaxRestarts
               /\ snap' = s
               /\ pre_cumulative' = worker_cumulative[cur]
               /\ pc' = "rw_fold"
               /\ cur' = cur
          ELSE /\ NextWorker
               /\ UNCHANGED <<snap, pre_cumulative>>
    /\ UNCHANGED <<attempt, restarted, processes, new_proc, running,
                   worker_processes, worker_restarts, worker_cumulative,
                   stop_pc,
                   cfgVars, loopVars, proc, sig, jobs, profile, locked, log, master>>

\* display_stats after check_and_restart_workers returned: the table is
\* computed and printed, the list is returned; main() sleeps and loops.
Display ==
    /\ pc = "display"
    /\ restarted' = <<>>
    /\ pc' = "check"
    /\ cur' = 1
    /\ UNCHANGED <<attempt, snap, processes, new_proc, running,
                   worker_processes, worker_restarts, worker_cumulative,
                   pre_cumulative, stop_pc,
                   cfgVars, loopVars, proc, sig, jobs, profile, locked, log, master>>

\* ------------------------------------------------ supervisor: restart_worker
\* Mutant of Fold: the failed count of the snapshot is not added.
FoldSuccessOnly(c, s) == [success |-> c.success + s.success, failed |-> c.failed]

\* worker_cumulative[idx] after the fold of the snapshot.
Fold(c, s) == Add(c, s)

\* Mutant of RestartFold: the snapshot is folded into every worker's counts.
RestartFoldAll ==
    /\ pc = "rw_fold"
    /\ worker_cumulative' = [k \in 1..Len(worker_cumulative) |->
                                Fold(worker_cumulative[k], snap)]
    /\ pc' = "rw_terminate"
    /\ UNCHANGED <<cur, attempt, restarted, snap, processes, new_proc, running,
                   worker_processes, worker_restarts,
                   pre_cumulative, stop_pc,
                   cfgVars, loopVars, proc, sig, jobs, profile, locked, log, master>>

\* lines 174-175
RestartFold ==
    /\ pc = "rw_fold"
    /\ worker_cumulative' = [worker_cumulative EXCEPT ![cur] = Fold(@, snap)]
    /\ pc' = "rw_terminate"
    /\ UNCHANGED <<cur, attempt, restarted, snap, processes, new_proc, running,
                   worker_processes, worker_restarts,
                   pre_cumulative, stop_pc,
                   cfgVars, loopVars, proc, sig, jobs, profile, locked, log, master>>

\* lines 178-180: proc.poll() and proc.terminate()
RestartTerminate ==
    /\ pc = "rw_terminate"
    /\ IF Alive(cur, worker_processes[cur])
       THEN /\ sig' = [sig EXCEPT ![cur][worker_processes[cur]] = "term"]
            /\ pc' = "rw_wait"
       ELSE /\ pc' = "rw_settle"
            /\ UNCHANGED sig
    /\ UNCHANGED <<cur, attempt, restarted, snap, processes, new_proc, running,
                   worker_processes, worker_restarts, worker_cumulative,
                   pre_cumulative, stop_pc,
                   cfgVars, loopVars, proc, jobs, profile, locked, log, master>>

\* Mutant of KillWaitTimeout: the timeout is swallowed and the restart goes on.
KillWaitIgnored == pc' = "rw_settle" /\ UNCHANGED stop_pc

\* What restart_worker does when a wait(timeout=5) on a process that was
\* sent SIGKILL times out: the TimeoutExpired is not caught.
KillWaitTimeout == Raise

\* lines 181-184: proc.wait(timeout=5); on a timeout proc.kill()
RestartWait ==
    /\ pc = "rw_wait"
    /\ IF Alive(cur, worker_processes[cur])
       THEN /\ sig' = [sig EXCEPT ![cur][worker_processes[cur]] = "kill"]
            /\ pc' = "rw_wait_kill"
       ELSE /\ pc' = "rw_settle"
            /\ UNCHANGED sig
    /\ UNCHANGED <<cur, attempt, restarted, snap, processes, new_proc, running,
                   worker_processes, worker_restarts, worker_cumulative,
                   pre_cumulative, stop_pc,
                   cfgVars, loopVars, proc, jobs, profile, locked, log, master>>

\* line 185: proc.wait(timeout=5) after the kill
RestartWaitKill ==
    /\ pc = "rw_wait_kill"
    /\ IF Alive(cur, worker_processes[cur])
       THEN KillWaitTimeout
       ELSE pc' = "rw_settle" /\ UNCHANGED stop_pc
    /\ UNCHANGED <<cur, attempt, restarted, snap, processes, new_proc, running,
                   worker_processes, worker_restarts, worker_cumulative,
                   pre_cumulative,
                   cfgVars, loopVars, proc, sig, jobs, profile, locked, log, master>>

\* Mutant of RestartSettle: the removal of the profile is skipped.
RestartSettleSkipClean ==
    /\ pc = "rw_settle"
    /\ pc' = "rw_create"
    /\ attempt' = 0
    /\ UNCHANGED <<cur, restarted, snap, processes, new_proc, running,
                   worker_processes, worker_restarts, worker_cumulative,
                   pre_cumulative, stop_pc,
                   cfgVars, loopVars, proc, sig, jobs, profile, locked, log, master>>

\* line 188: time.sleep(2)
RestartSettle ==
    /\ pc = "rw_settle"
    /\ pc' = "rw_clean"
    /\ attempt' = 0
    /\ UNCHANGED <<cur, restarted, snap, processes, new_proc, running,
                   worker_processes, worker_restarts, worker_cumulative,
                   pre_cumulative, stop_pc,
                   cfgVars, loopVars, proc, sig, jobs, profile, locked, log, master>>

\* line 191: clean_worker_profile(worker_id)
RestartClean ==
    /\ pc = "rw_clean"
    /\ clean_worker_profile(cur, pc' = "rw_create" /\ cur' = cur /\ attempt' = attempt)
    /\ UNCHANGED <<restarted, snap, processes, new_proc, running,
                   worker_processes, worker_restarts, worker_cumulative,
                   pre_cumulative, stop_pc,
                   cfgVars, loopVars, proc, sig, jobs, locked, master>>

\* line 192: create_worker_profile(worker_id)
RestartCreate ==
    /\ pc = "rw_create"
    /\ IF CanCopy(cur)
       THEN /\ profile' = [profile EXCEPT ![cur] = ProfileAfterCopy(cur)]
            /\ pc' = "rw_spawn"
            /\ UNCHANGED stop_pc
       ELSE Raise /\ UNCHANGED profile
    /\ UNCHANGED <<cur, attempt, restarted, snap, processes, new_proc, running,
                   worker_processes, worker_restarts, worker_cumulative,
                   pre_cumulative,
                   cfgVars, loopVars, proc, sig, jobs, locked, log, master>>

\* line 195: new_proc = start_single_worker(worker_id, visible_mode)
RestartSpawn ==
    /\ pc = "rw_spawn"
    /\ \/ /\ proc' = [proc EXCEPT ![cur][NextGen(cur)] = "starting"]
          /\ new_proc' = NextGen(cur)
          /\ pc' = "rw_store"
          /\ UNCHANGED stop_pc
       \/ /\ Raise
          /\ UNCHANGED <<proc, new_proc>>
    /\ UNCHANGED <<cur, attempt, restarted, snap, processes, running,
                   worker_processes, worker_restarts, worker_cumulative,
                   pre_cumulative,
                   cfgVars, loopVars, sig, jobs, profile, locked, log, master>>

\* lines 196-199 and 229: the handle is replaced, the restart is counted,
\* the worker id is appended to the list of the cycle.
RestartStore ==
    /\ pc = "rw_store"
    /\ worker_processes' = [worker_processes EXCEPT ![cur] = new_proc]
    /\ worker_restarts' = [worker_restarts EXCEPT ![cur] = @ + 1]
    /\ restarted' = Append(restarted, cur)
    /\ new_proc' = 0
    /\ snap' = Zero
    /\ pre_cumulative' = Zero
    /\ attempt' = 0
    /\ NextWorker
    /\ UNCHANGED <<processes, running, worker_cumulative,
                   stop_pc,
                   cfgVars, loopVars, proc, sig, jobs, profile, locked, log, master>>

\* ------------------------------------------------- supervisor: SIGINT, cleanup
\* SIGINT is delivered: signal_handler calls cleanup(), which first clears
\* running.  The handler never returns to the interrupted code (sys.exit),
\* whose local variables are dead from here on.
Interrupt ==
    /\ ~Stopped
    /\ ~InCleanup
    /\ stop_pc' = Phase(pc)
    /\ running' = FALSE
    /\ pc' = "cl_terminate"
    /\ cur' = 1
    /\ attempt' = 0
    /\ restarted' = <<>>
    /\ snap' = Zero
    /\ processes' = <<>>
    /\ new_proc' = 0
    /\ pre_cumulative' = Zero
    /\ UNCHANGED <<worker_processes, worker_restarts, worker_cumulative,
                   cfgVars, loopVars, proc, sig, jobs, profile, locked, log, master>>

\* The processes cleanup() signals and waits for.
CleanupTargets == 1..Len(worker_processes)

\* Mutant of AfterTerminate: the wait loop is skipped.
AfterTerminateNoWait == "cl_remove"

\* Where cleanup() goes after its terminate loop: to the wait loop (which
\* has nothing to do on an empty list), then to the removal of the profiles.
AfterTerminate == IF CleanupTargets = {} THEN "cl_remove" ELSE "cl_wait"

\* lines 313-316: terminate every process of worker_processes still alive
\* (a kill already pending on it, from an interrupted restart, stays pending)
CleanupTerminate ==
    /\ pc = "cl_terminate"
    /\ sig' = [i \in AllSlots |-> [g \in Gens |->
                 IF i \in CleanupTargets /\ worker_processes[i] = g /\ Alive(i, g)
                    /\ sig[i][g] # "kill"
                 THEN "term" ELSE sig[i][g]]]
    /\ pc' = AfterTerminate
    /\ cur' = 1
    /\ UNCHANGED <<attempt, restarted, snap, processes, new_proc, running,
                   worker_processes, worker_restarts, worker_cumulative,
                   pre_cumulative, stop_pc,
                   cfgVars, loopVars, proc, jobs, profile, locked, log, master>>

\* lines 319-323: wait(timeout=5) for one process; on a timeout kill() it
CleanupWait ==
    /\ pc = "cl_wait"
    /\ sig' = IF Alive(cur, worker_processes[cur])
              THEN [sig EXCEPT ![cur][worker_processes[cur]] = "kill"]
              ELSE sig
    /\ IF cur < Len(worker_processes)
       THEN pc' = pc /\ cur' = cur + 1
       ELSE pc' = "cl_remove" /\ cur' = 1
    /\ UNCHANGED <<attempt, restarted, snap, processes, new_proc, running,
                   worker_processes, worker_restarts, worker_cumulative,
                   pre_cumulative, stop_pc,
                   cfgVars, loopVars, proc, jobs, profile, locked, log, master>>

\* lines 327-331: rmtree(ignore_errors=True) of one profile; after the last,
\* signal_handler calls sys.exit(0)
CleanupRemove ==
    /\ pc = "cl_remove"
    /\ profile' = [profile EXCEPT ![cur] = IF locked[cur] THEN @ ELSE "absent"]
    /\ IF cur < num_workers
       THEN pc' = pc /\ cur' = cur + 1
       ELSE pc' = "exited" /\ cur' = cur
    /\ UNCHANGED <<attempt, restarted, snap, processes, new_proc, running,
                   worker_processes, worker_restarts, worker_cumulative,
                   pre_cumulative, stop_pc,
                   cfgVars, loopVars, proc, sig, jobs, locked, log, master>>

\* ------------------------------------------------------------ specification
Supervisor ==
    \/ CleanProfiles
    \/ CreateProfiles
    \/ StartWorkers
    \/ StartWorkersAssign
    \/ Evaluate
    \/ Display
    \/ RestartFold
    \/ RestartTerminate
    \/ RestartWait
    \/ RestartWaitKill
    \/ RestartSettle
    \/ RestartClean
    \/ RestartCreate
    \/ RestartSpawn
    \/ RestartStore
    \/ Interrupt
    \/ CleanupTerminate
    \/ CleanupWait
    \/ CleanupRemove

Workers ==
    \E i \in AllSlots, g \in Gens :
        \/ WorkerStart(i, g)
        \/ WorkerEmit(i, g, TRUE)
        \/ WorkerEmit(i, g, FALSE)
        \/ WorkerExit(i, g)

Environment ==
    \/ \E d \in AllSlots : ReleaseFiles(d)
    \/ RemoveMaster

Next == Supervisor \/ Workers \/ Environment

Spec == Init /\ [][Next]_vars

\* ============================================== one worker loop in detail
\* run_worker of trakheesi_worker.py from "Browser ready" on, with the job
\* source, the scraper and the result API as inputs.  The pool rests.
PoolOff ==
    /\ pc = "off"
    /\ cur = 1
    /\ attempt = 0
    /\ restarted = <<>>
    /\ snap = Zero
    /\ processes = <<>>
    /\ new_proc = 0
    /\ num_workers = 1
    /\ restart_threshold = 0
    /\ min_success_rate = 0
    /\ running = TRUE
    /\ worker_processes = <<>>
    /\ worker_restarts = <<>>
    /\ worker_cumulative = <<>>
    /\ proc = [i \in AllSlots |-> [g \in Gens |-> "none"]]
    /\ sig = [i \in AllSlots |-> [g \in Gens |-> "none"]]
    /\ jobs = [i \in AllSlots |-> [g \in Gens |-> Zero]]
    /\ profile = [i \in AllSlots |-> "absent"]
    /\ log = [i \in AllSlots |-> NoLog]
    /\ locked = [i \in AllSlots |-> FALSE]
    /\ master = TRUE
    /\ pre_cumulative = Zero
    /\ stop_pc = "none"

\* Ids a job of the source carries: a listing GUID, or a string that holds
\* the failure glyph.
JobIds == {"guid", "glyph"}

\* An item of a response that is not a dict: job.get raises.
Malformed == [id |-> "malformed", scrape |-> "empty", submit |-> "none"]

\* A dict without an "id" (or with an empty one).
NoId == [id |-> "none", scrape |-> "empty", submit |-> "none"]

\* The items a response can hold.  scrape: what scrape_listing returns for
\* the job (data or nothing); submit: how the POST of its result ends (a
\* status code, or a transport error), "none" when nothing is submitted.
Jobs ==
    {Malformed, NoId}
    \cup {[id |-> i, scrape |-> "data", submit |-> s] :
             i \in JobIds, s \in {"200", "500", "error"}}
    \cup {[id |-> i, scrape |-> "empty", submit |-> "none"] : i \in JobIds}

Batches == UNION {[1..n -> Jobs] : n \in 0..MaxBatch}

\* What client.get(JOBS_API) ends in: 200 with a list, 200 with a dict, 200
\* with anything else, 304, another status, httpx.ReadTimeout, another
\* exception.
Responses ==
    {[kind |-> "list", data |-> b] : b \in Batches}
    \cup {[kind |-> "dict", data |-> <<j>>] : j \in Jobs \ {Malformed}}
    \cup {[kind |-> k, data |-> <<>>] : k \in {"other", "304", "500", "timeout", "error"}}

\* fetch_jobs: the list, the dict with an "id" as a one-element list, and
\* [] in every other case, the caught exceptions included.
fetch_jobs(r) ==
    IF r.kind = "list" THEN r.data
    ELSE IF r.kind = "dict" /\ r.data[1].id # "none" THEN r.data
    ELSE <<>>

\* Mutant of submit_result: every HTTP response counts as a success.
submit_result_any_status(j) == j.submit # "error"

\* submit_result: True on status 200, False on another status and on an
\* exception.
submit_result(j) == j.submit = "200"

\* The marker glyphs in the echo of the job id (line 217).
Glyphs(id) == IF id = "glyph" THEN Stats(0, 1) ELSE Zero

\* The job is dispatched to the scraper: it is a dict with an id.
Dispatched(j) == j.id \notin {"none", "malformed"}

\* The marker of a job attempt: lines 222-238.
Token(j) == IF j.scrape = "data" /\ submit_result(j) THEN "ok" ELSE "fail"

Attempts == jobs_processed + jobs_failed

\* line 205
NeedRestart == restart_every > 0 /\ jobs_since_restart >= restart_every /\ ~use_profile

LoopPcs == {"poll", "for", "except"}

\* Mutant of AfterException: the handler leaves the loop.
AfterExceptionExit == "exited"

\* except Exception (lines 258-260): print, sleep(poll_interval), loop on.
AfterException == "except"

\* Where the for loop goes after one job: the next job, or the next poll.
AfterJob(l) == IF l = <<>> THEN "poll" ELSE "for"

WInit ==
    /\ PoolOff
    /\ wpc = "poll"
    /\ job_list = <<>>
    /\ jobs_processed = 0
    /\ jobs_failed = 0
    /\ jobs_since_restart = 0
    /\ jobs_since_report = 0
    /\ restart_every \in RestartEvery
    /\ use_profile \in BOOLEAN
    /\ out = Zero
    /\ token = "none"
    /\ served = 0
    /\ poll_err = FALSE

\* lines 194-197, 249-251: jobs = await fetch_jobs(client); an empty list
\* prints "." and polls again.
WPoll(r) ==
    /\ wpc = "poll"
    /\ Attempts + Len(fetch_jobs(r)) <= MaxAttempts
    /\ job_list' = fetch_jobs(r)
    /\ wpc' = AfterJob(fetch_jobs(r))
    /\ poll_err' = (r.kind = "error")
    /\ UNCHANGED <<jobs_processed, jobs_failed, jobs_since_restart,
                   jobs_since_report, restart_every, use_profile, out, token,
                   served, poolVars>>

\* lines 200-202: a job without an id is passed over.
WSkip ==
    /\ wpc = "for"
    /\ Head(job_list).id = "none"
    /\ job_list' = Tail(job_list)
    /\ wpc' = AfterJob(Tail(job_list))
    /\ UNCHANGED <<jobs_processed, jobs_failed, jobs_since_restart,
                   jobs_since_report, restart_every, use_profile, out, token,
                   served, poll_err, poolVars>>

\* line 200 on an item that is not a dict: the AttributeError leaves the
\* for loop and is caught by the handler of the while loop.
WMalformed ==
    /\ wpc = "for"
    /\ Head(job_list).id = "malformed"
    /\ job_list' = <<>>
    /\ wpc' = AfterException
    /\ UNCHANGED <<jobs_processed, jobs_failed, jobs_since_restart,
                   jobs_since_report, restart_every, use_profile, out, token,
                   served, poll_err, poolVars>>

\* lines 205-214: the browser is closed and created again; create_browser
\* may raise.
WSessionRestart ==
    /\ wpc = "for"
    /\ Dispatched(Head(job_list))
    /\ NeedRestart
    /\ \/ /\ jobs_since_restart' = 0
          /\ served' = 0
          /\ UNCHANGED <<wpc, job_list>>
       \/ /\ wpc' = AfterException
          /\ job_list' = <<>>
          /\ UNCHANGED <<jobs_since_restart, served>>
    /\ UNCHANGED <<jobs_processed, jobs_failed,
                   jobs_since_report, restart_every, use_profile, out, token,
                   poll_err, poolVars>>

\* lines 216-248: echo of the id, scrape, submit, marker, counters, report.
WAttempt ==
    /\ wpc = "for"
    /\ Dispatched(Head(job_list))
    /\ ~NeedRestart
    /\ LET j == Head(job_list)
           ok == Token(j) = "ok"
           counted == ok \/ j.scrape # "data"
       IN /\ token' = Token(j)
          /\ out' = Add(Add(out, Glyphs(j.id)),
                        IF ok THEN Stats(1, 0) ELSE Stats(0, 1))
          /\ jobs_processed' = IF ok THEN jobs_processed + 1 ELSE jobs_processed
          /\ jobs_failed' = IF ok THEN jobs_failed ELSE jobs_failed + 1
          /\ jobs_since_restart' = IF counted THEN jobs_since_restart + 1
                                   ELSE jobs_since_restart
          /\ jobs_since_report' = IF jobs_since_report + 1 >= report_every
                                  THEN 0 ELSE jobs_since_report + 1
          /\ served' = served + 1
          /\ job_list' = Tail(job_list)
          /\ wpc' = AfterJob(Tail(job_list))
    /\ UNCHANGED <<restart_every, use_profile, poll_err, poolVars>>

\* line 260: await asyncio.sleep(poll_interval), then the next iteration.
WBackoff ==
    /\ wpc = "except"
    /\ wpc' = "poll"
    /\ poll_err' = FALSE
    /\ UNCHANGED <<job_list, jobs_processed, jobs_failed, jobs_since_restart,
                   jobs_since_report, restart_every, use_profile, out, token,
                   served, poolVars>>

\* KeyboardInterrupt or a signal from the supervisor ends the loop.
WInterrupt ==
    /\ wpc \in LoopPcs
    /\ wpc' = "interrupted"
    /\ UNCHANGED <<job_list, jobs_processed, jobs_failed, jobs_since_restart,
                   jobs_since_report, restart_every, use_profile, out, token,
                   served, poll_err, poolVars>>

WNext ==
    \/ \E r \in Responses : WPoll(r)
    \/ WSkip
    \/ WMalformed
    \/ WSessionRestart
    \/ WAttempt
    \/ WBackoff
    \/ WInterrupt

WorkerSpec == WInit /\ [][WNext]_vars


\* ================================================================= claims
LeqStats(a, b) == a.success <= b.success /\ a.failed <= b.failed

\* check_and_restart_workers calls restart_worker for worker cur.
BeginRestart == pc = "check" /\ pc' = "rw_fold"

\* restart_worker returns for worker cur.
EndRestart == pc = "rw_store" /\ pc' \in {"check", "display"}

\* The process worker_processes[i] refers to.
Handle(i) == worker_processes[i]

\* C1: check_and_restart_workers never calls restart_worker for a worker
\* whose live total (success + failed of its current log) is below
\* restart_threshold, whatever its rate.
C1_NoRestartBelowMinSample ==
    [][BeginRestart =>
         /\ Total(parse_log_stats(cur)) >= restart_threshold
         /\ snap' = parse_log_stats(cur)]_vars

\* C1 witness: one failure out of one sample under a threshold of 2, the
\* worker process dead (its log frozen), evaluated and not restarted.
C1_Witness ==
    /\ pc = "check"
    /\ cur = 2
    /\ restarted = <<>>
    /\ restart_threshold = 2
    /\ log[1] = Stats(0, 1)
    /\ proc[1][Handle(1)] = "exited"
    /\ worker_restarts[1] = 0

\* C2: a worker found in breach (live total >= restart_threshold, live rate
\* below min_success_rate) is restarted once in that cycle: when
\* restart_worker returns its restart count has grown by one (it is one less
\* than the processes spawned in its slot) and it is once in the list; and
\* the tokens of one breach never trigger a second restart, in this or a
\* later cycle: a restart's snapshot holds no token already folded.
C2_RestartedOncePerBreach ==
    /\ [][EndRestart =>
            /\ ShouldRestart(snap)
            /\ worker_restarts'[cur] = worker_restarts[cur] + 1
            /\ Count(restarted, cur) = 0
            /\ Count(restarted', cur) = 1]_vars
    /\ [][BeginRestart =>
            LeqStats(Add(worker_cumulative[cur], snap'), Emitted(cur))]_vars
    /\ [](pc = "display" =>
            \A i \in Slots :
                /\ Count(restarted, i) <= 1
                /\ worker_restarts[i] + 1 = Cardinality(Spawned(i)))

\* C2 witness: the cycle after a restart on a real breach, the restarted
\* worker evaluated again and not restarted again.
C2_Witness ==
    /\ pc = "display"
    /\ restart_threshold > 0
    /\ restarted = <<>>
    /\ \E i \in Slots : worker_restarts[i] = 1 /\ Total(worker_cumulative[i]) > 0

\* C3: when restart_worker returns, the worker's effective stats are the
\* cumulative counts before the restart plus the snapshot, plus what the new
\* process has emitted since it was spawned; and from then on the live stats
\* of a restarted worker are exactly the tokens of its new process: (0,0)
\* until it emits its first token.
C3_CumulativePreserved ==
    /\ [][EndRestart =>
            \A w \in Slots : w = cur =>
                /\ worker_cumulative'[w] = Add(pre_cumulative, snap)
                /\ Effective(w)' = Add(Add(pre_cumulative, snap), jobs[w][new_proc])]_vars
    /\ [](pc \in {"check", "display"} =>
            \A i \in Slots :
                worker_restarts[i] > 0 => parse_log_stats(i) = jobs[i][Handle(i)])

\* C3 witness: a restart on a non-empty snapshot has returned and the new
\* process has not emitted yet.
C3_Witness ==
    /\ pc \in {"check", "display"}
    /\ \E i \in Slots :
          /\ worker_restarts[i] = 1
          /\ Total(worker_cumulative[i]) > 0
          /\ jobs[i][Handle(i)] = Zero
          /\ proc[i][Handle(i)] = "running"

\* C4 (as claimed): whenever display_stats computes the table, cumulative +
\* live of every slot equals the tokens emitted in that slot over all its
\* process lifetimes.  Stated for restart_threshold > 0, so that the lost
\* tokens do not rest on the zero-sample restart of C5.
C4_NoTokenLost ==
    (pc = "display" /\ restart_threshold > 0) =>
        \A i \in Slots : Effective(i) = Emitted(i)

\* C5 (as claimed): a worker with zero live samples is never restarted.
C5_NoRestartOnZeroSamples ==
    [][BeginRestart => Total(parse_log_stats(cur)) > 0]_vars

\* C6 (as claimed): a failing step of restart_worker never ends the
\* supervisor: no exception leaves the monitoring loop.  Stated for
\* restart_threshold > 0, as C4.
C6_RestartFailureContained ==
    restart_threshold > 0 => ~(pc = "crashed" /\ stop_pc = "cycle")

\* C7: every profile directory is in use by at most one live worker
\* process; in particular a slot never has two live processes.
C7_ProfileExclusive ==
    \A d \in AllSlots :
        Cardinality({p \in AllSlots \X Gens :
                        Alive(p[1], p[2]) /\ get_profile_dir(p[1]) = d}) <= 1

\* C7 witness: two workers alive, one of them the replacement spawned by a
\* restart whose old process was alive when the restart began.
C7_Witness ==
    /\ num_workers = 2
    /\ pc \in {"check", "display"}
    /\ \A i \in Slots : Alive(i, Handle(i))
    /\ \E i \in Slots : worker_restarts[i] = 1 /\ Handle(i) = 2

\* C8: every spawn, at pool start and on restart, finds the slot's profile
\* directory a copy of the master that no process has used, and no earlier
\* process of the slot alive.
C8_SpawnOnFreshCopy ==
    [][\A i \in AllSlots : \A g \in Gens :
          (proc[i][g] = "none" /\ proc'[i][g] # "none") =>
              /\ profile[get_profile_dir(i)] = "fresh"
              /\ AliveGens(i) = {}]_vars

\* C8 witness: a replacement process spawned after the removal of the old
\* directory fell back to the forced deletion.
C8_Witness ==
    /\ pc = "rw_store"
    /\ attempt = retries
    /\ new_proc # 0
    /\ proc[cur][new_proc] = "starting"
    /\ profile[cur] = "fresh"

\* C9 (as claimed): when the supervisor has stopped from inside a monitoring
\* cycle, every process it spawned has exited or was killed and every
\* working profile directory is gone.  Stated for restart_threshold > 0, as C4.
C9_NothingLeftBehind ==
    (Stopped /\ stop_pc = "cycle" /\ restart_threshold > 0) =>
        /\ \A i \in Slots : \A g \in Gens : Alive(i, g) => sig[i][g] = "kill"
        /\ \A i \in Slots : profile[i] = "absent"

RestartTerminated == pc \in {"rw_settle", "rw_clean", "rw_create", "rw_spawn"}

\* C11 (as claimed): terminating a worker is two-phase.  The graceful signal
\* goes first, to a live process; the kill goes only after the wait, to a
\* process still alive that was sent the graceful signal; and once the
\* sequence has returned normally, in restart_worker and in cleanup(), the
\* process is not alive.
C11_TwoPhaseTerminate ==
    /\ [][\A i \in AllSlots : \A g \in Gens :
            (sig'[i][g] = "term" /\ sig[i][g] # "term") =>
                /\ sig[i][g] = "none"
                /\ Alive(i, g)
                /\ pc \in {"rw_terminate", "cl_terminate"}]_vars
    /\ [][\A i \in AllSlots : \A g \in Gens :
            (sig'[i][g] = "kill" /\ sig[i][g] # "kill") =>
                /\ sig[i][g] = "term"
                /\ Alive(i, g)
                /\ pc \in {"rw_wait", "cl_wait"}]_vars
    /\ [](RestartTerminated => ~Alive(cur, Handle(cur)))
    /\ [](pc \in {"cl_remove", "exited"} =>
            \A i \in CleanupTargets : ~Alive(i, Handle(i)))

\* The supervisor is inside clean_worker_profile(cur).
CleanPcs == {"clean_profiles", "rw_clean"}

\* An ordinary shutil.rmtree of clean_worker_profile fails.
CleanFailed == pc \in CleanPcs /\ attempt' = attempt + 1

\* clean_worker_profile(cur) returns to its caller.
CleanReturned ==
    /\ pc \in CleanPcs
    /\ pc' # "cl_terminate"
    /\ (pc' # pc \/ cur' # cur)

\* C12: clean_worker_profile makes at most retries ordinary delete attempts,
\* goes from a failed attempt to the next one, returns at the first attempt
\* that succeeds (the directory is gone, nothing forced), falls back to the
\* forced delete, whose errors are ignored, exactly when retries ordinary
\* attempts have failed, and always returns: no step of it raises or blocks.
C12_RemoveRetries ==
    /\ [][CleanFailed =>
            /\ attempt < retries
            /\ locked[cur]
            /\ profile[cur] # "absent"
            /\ UNCHANGED <<pc, cur, profile, log>>]_vars
    /\ [][CleanReturned =>
            /\ attempt <= retries
            /\ attempt < retries => (~locked[cur] \/ profile[cur] = "absent")
            /\ attempt < retries => profile'[cur] = "absent"
            /\ attempt = retries =>
                  profile'[cur] = IF locked[cur] THEN profile[cur] ELSE "absent"
            /\ log'[cur] = NoLog]_vars
    /\ [][(pc \in CleanPcs) => (pc' # "crashed")]_vars
    /\ [](pc \in CleanPcs => ENABLED (CleanProfiles \/ RestartClean))

\* C12 witness: the files were released after the first attempt failed; the
\* second attempt removed the directory and clean_worker_profile returned.
C12_Witness ==
    /\ pc = "rw_create"
    /\ attempt = 1
    /\ profile[cur] = "absent"
    /\ ~locked[cur]

\* clean_worker_profile(cur) is called with neither directory nor log there.
CleanOnNothing ==
    /\ pc \in CleanPcs
    /\ pc' # "cl_terminate"
    /\ <<pc, cur, attempt>>' # <<pc, cur, attempt>>
    /\ profile[cur] = "absent"
    /\ log[cur] = NoLog

\* C13: clean_worker_profile on a worker id whose profile directory and log
\* do not exist changes nothing in the file system, raises nothing and
\* returns at once, so a removal that follows a removal is a no-op.
C13_RemoveIdempotent ==
    /\ [][CleanOnNothing =>
            /\ CleanReturned
            /\ pc' # "crashed"
            /\ attempt = 0
            /\ UNCHANGED <<profile, log, locked, master>>]_vars
    /\ []((pc \in CleanPcs /\ profile[cur] = "absent" /\ log[cur] = NoLog) =>
            ENABLED (CleanProfiles \/ RestartClean))

\* C13 witness: start-up on a machine with nothing left over; the removal of
\* worker 1 has returned and nothing exists, as before it.
C13_Witness ==
    /\ pc = "clean_profiles"
    /\ cur = 2
    /\ \A i \in AllSlots : profile[i] = "absent" /\ log[i] = NoLog

\* The supervisor runs create_worker_profile(cur).
CreateStep ==
    /\ pc \in {"create_profiles", "rw_create"}
    /\ pc' # "cl_terminate"
    /\ <<pc, cur>>' # <<pc, cur>>

\* C14: create_worker_profile succeeds, leaving a fresh copy of the master,
\* exactly when the master exists and the destination does not; otherwise it
\* raises and leaves the destination as it was: nothing is overwritten or
\* merged into.
C14_CreateFailsCleanly ==
    [][CreateStep =>
         IF master /\ profile[cur] = "absent"
         THEN /\ pc' # "crashed"
              /\ profile' = [profile EXCEPT ![cur] = "fresh"]
         ELSE /\ pc' = "crashed"
              /\ UNCHANGED profile]_vars

\* C14 witness: the copy raised on a destination the forced delete had left
\* behind (the master exists); the directory is as the old process left it.
C14_Witness ==
    /\ pc = "crashed"
    /\ attempt = retries
    /\ master
    /\ profile[cur] = "used"

\* C15 (as claimed): at every point of the worker loop the success glyphs in
\* the output stream are as many as jobs_processed and the failure glyphs as
\* many as jobs_failed: each completed job attempt prints exactly one marker
\* and nothing else the loop prints holds a marker glyph.
C15_OneTokenPerAttempt == out = Stats(jobs_processed, jobs_failed)

\* The loop completes one job attempt (scrape, submit, marker).
AttemptStep == wpc = "for" /\ Attempts' = Attempts + 1

\* C16: a job attempt prints the success marker exactly when the scrape
\* returned data and the submit of it was answered with status 200; an empty
\* scrape, another status and a transport error of the submit print the
\* failure marker; the counters follow the marker; and the job is not tried
\* again: the attempt is one scrape by the session and the job leaves the batch.
C16_SuccessNeedsScrapeAndSubmit ==
    [][AttemptStep =>
         LET j == Head(job_list)
         IN /\ token' = IF j.scrape = "data" /\ j.submit = "200" THEN "ok" ELSE "fail"
            /\ jobs_processed' = jobs_processed + (IF token' = "ok" THEN 1 ELSE 0)
            /\ jobs_failed' = jobs_failed + (IF token' = "fail" THEN 1 ELSE 0)
            /\ served' = served + 1
            /\ job_list' = Tail(job_list)]_vars

\* C16 witness: the first job of a session was scraped, its submit was not
\* answered with 200, the failure marker was printed and the loop is back at
\* the poll.
C16_Witness ==
    /\ wpc = "poll"
    /\ token = "fail"
    /\ jobs_failed = 1
    /\ jobs_processed = 0
    /\ jobs_since_restart = 0
    /\ served = 1

\* C17 (as claimed): with session restart enabled (restart_every > 0, no
\* persistent profile) no browser session serves more than restart_every job
\* attempts, whatever their outcomes.
C17_SessionServesAtMostK ==
    (restart_every > 0 /\ ~use_profile) => served <= restart_every

\* The loop issues a poll of the job source.
PollStep == wpc = "poll" /\ wpc' # "interrupted"

\* C18 (as claimed): no poll is issued right after a poll that failed with a
\* transport error (not a read timeout): a backoff wait lies between them.
C18_BackoffAfterPollError == [][PollStep => ~poll_err]_vars

\* C19: the worker loop has no completion of its own.  From any point of the
\* loop a step leads to a point of the loop, or to its end by an interrupt;
\* and at every point of the loop a step other than the interrupt is possible:
\* no outcome of a poll, a scrape, a submit or a session restart, and no
\* exception raised in the loop, ends or blocks it.
C19_LoopNeverCompletes ==
    /\ [][(wpc \in LoopPcs) => (wpc' \in LoopPcs \cup {"interrupted"})]_vars
    /\ [][(wpc' = "interrupted") => (wpc \in LoopPcs \cup {"interrupted"})]_vars
    /\ [](wpc \in LoopPcs =>
            ENABLED ((\E r \in Responses : WPoll(r)) \/ WSkip \/ WMalformed
                       \/ WSessionRestart \/ WAttempt \/ WBackoff))

\* C19 witness: after a success and a failure an exception was raised inside
\* the loop and caught by its handler; the loop goes on from there.
C19_Witness ==
    /\ wpc = "except"
    /\ jobs_processed = 1
    /\ jobs_failed = 1
    /\ ENABLED WBackoff

\* check_and_restart_workers decides on worker cur.
EvaluateStep == pc = "check" /\ pc' # "cl_terminate" /\ <<pc, cur>>' # <<pc, cur>>

\* C20 (as claimed): in one cycle the workers are visited in ascending id
\* order; a worker is restarted exactly when its live total is at least
\* restart_threshold and its live rate, success * 100 / total (100% on zero
\* samples), is below min_success_rate, whatever happens to other workers;
\* the returned list holds the restarted workers in ascending order.
C20_ExactlyTheBreaching ==
    /\ [][EvaluateStep =>
            LET s == parse_log_stats(cur)
            IN (pc' = "rw_fold") <=>
                   /\ Total(s) >= restart_threshold
                   /\ Total(s) > 0
                   /\ s.success * 100 < min_success_rate * Total(s)]_vars
    /\ [][(pc \in {"check", "rw_store"} /\ pc' = "check" /\ cur' # cur) =>
            (cur' = cur + 1)]_vars
    /\ [][EndRestart => (restarted' = Append(restarted, cur))]_vars
    /\ [](pc = "display" =>
            \A k \in 1..Len(restarted) :
                \A m \in 1..Len(restarted) : k < m => restarted[k] < restarted[m])

\* The slots whose record exists (start_workers has assigned the globals).
Recorded == 1..Len(worker_processes)

\* display_stats, line 293: the workers counted as running.
AliveCount == Cardinality({i \in Recorded : Alive(i, Handle(i))})

\* restart_worker is running for worker i.
InRestart(i) == pc \in CyclePcs \ {"check", "display"} /\ cur = i

\* The process of slot i has ended with fewer live samples than
\* restart_threshold (and not by a restart that is under way, which removes
\* the log of a process it has stopped).
DeadBelowMinSample(i) ==
    /\ ~InRestart(i)
    /\ proc[i][Handle(i)] = "exited"
    /\ Total(parse_log_stats(i)) < restart_threshold

\* C21: a worker whose process has ended with a live total below
\* restart_threshold stays as it is: no later step of the pool changes its
\* process handle, its restart count or its live stats, its process stays
\* dead, it is never the worker restart_worker runs for, and display_stats
\* does not count it among the running workers.
C21_DeadBelowMinSampleStays ==
    /\ [][\A i \in Recorded :
            DeadBelowMinSample(i) =>
                /\ DeadBelowMinSample(i)'
                /\ worker_processes'[i] = worker_processes[i]
                /\ worker_restarts'[i] = worker_restarts[i]
                /\ parse_log_stats(i)' = parse_log_stats(i)
                /\ (pc' = "rw_fold" => cur' # i)]_vars
    /\ [](pc = "display" =>
            AliveCount = Cardinality({i \in Recorded : proc[i][Handle(i)] # "exited"}))
    /\ [](pc = "display" =>
            \A i \in Recorded : DeadBelowMinSample(i) => AliveCount < num_workers)

\* C21 witness: a worker printed one success and its process ended, no
\* signal ever sent to it; display_stats, under a threshold of 2, counts one
\* running worker out of two, the dead one never restarted, its one success
\* still its live stats.
C21_Witness ==
    /\ pc = "display"
    /\ restart_threshold = 2
    /\ num_workers = 2
    /\ log[1] = Stats(1, 0)
    /\ jobs[1][1] = Stats(1, 0)
    /\ Handle(1) = 1
    /\ proc[1][1] = "exited"
    /\ worker_restarts[1] = 0
    /\ AliveCount = 1

\* The place of a control point in restart_worker: its statements in the
\* order of the source, 0 outside it.
RestartRank(p) ==
    CASE p = "rw_fold" -> 1
      [] p \in {"rw_terminate", "rw_wait", "rw_wait_kill"} -> 2
      [] p = "rw_settle" -> 3
      [] p = "rw_clean" -> 4
      [] p = "rw_create" -> 5
      [] p = "rw_spawn" -> 6
      [] p = "rw_store" -> 7
      [] OTHER -> 0

\* The ways out of restart_worker other than its return: an exception no
\* handler catches, and SIGINT.
RestartAborted == {"crashed", "cl_terminate"}

\* C22: restart_worker runs fold, stop of the old process, settle wait,
\* removal of the profile, creation of the profile, spawn, store (handle
\* replaced and restart counted), each entered from the one before it and
\* from nowhere else; each effect happens at its step and at no other; a
\* restart that returns has done them all; and the restart count of a slot
\* is the number of times its handle was replaced, counted only with a
\* process spawned for it.
C22_RestartInOrder ==
    /\ [][(RestartRank(pc') > 0 /\ pc' # pc) =>
            \/ RestartRank(pc') = RestartRank(pc) + 1
            \/ RestartRank(pc') = 2 /\ RestartRank(pc) = 2]_vars
    /\ [][(RestartRank(pc) > 0 /\ RestartRank(pc') = 0) =>
            (RestartRank(pc) = 7 \/ pc' \in RestartAborted)]_vars
    /\ [][RestartRank(pc) > 0 =>
            /\ (worker_cumulative' # worker_cumulative) => RestartRank(pc) = 1
            /\ (sig' # sig /\ pc' # "cl_terminate") => RestartRank(pc) = 2
            /\ (profile'[cur] = "absent" /\ profile[cur] # "absent") => RestartRank(pc) = 4
            /\ (log'[cur] = NoLog /\ log[cur] # NoLog) => RestartRank(pc) = 4
            /\ (profile'[cur] = "fresh" /\ profile[cur] # "fresh") => RestartRank(pc) = 5
            /\ (\E g \in Gens : proc[cur][g] = "none" /\ proc'[cur][g] # "none") =>
                   RestartRank(pc) = 6
            /\ (worker_processes' # worker_processes \/ worker_restarts' # worker_restarts) =>
                   RestartRank(pc) = 7]_vars
    /\ [][EndRestart =>
            /\ worker_cumulative[cur] = Add(pre_cumulative, snap)
            /\ ~Alive(cur, Handle(cur))
            /\ profile[cur] # "absent"
            /\ log[cur] \in {NoLog, jobs[cur][new_proc]}
            /\ new_proc = Handle(cur) + 1
            /\ proc[cur][new_proc] # "none"
            /\ worker_processes' = [worker_processes EXCEPT ![cur] = new_proc]
            /\ worker_restarts' = [worker_restarts EXCEPT ![cur] = @ + 1]]_vars
    /\ [](\A i \in Recorded :
            /\ worker_restarts[i] = Handle(i) - 1
            /\ proc[i][Handle(i)] # "none")

\* C22 witness: a slot restarted twice, both restarts returned: the handle
\* is the third process of the slot and the restart count is 2.
C22_Witness ==
    /\ pc \in {"check", "display"}
    /\ \E i \in Slots :
          /\ worker_restarts[i] = 2
          /\ Handle(i) = 3
          /\ proc[i][1] = "exited"
          /\ proc[i][2] = "exited"
          /\ Alive(i, 3)

\* The monitor reads the logs: check_and_restart_workers or display_stats
\* is about to parse them.
MonitorReads == pc \in {"check", "display"}

\* C23: the counts parse_log_stats returns for a slot decrease in one place
\* only, the removal of the log by restart_worker for that slot, where they
\* go to zero; no running process finds a non-empty log to truncate; what the
\* monitor reads is always the tokens of the slot's current process and of no
\* other, which never decrease; and when a restart returns the counts read
\* are those of the new process alone, zero until it emits.
C23_StreamResetsOnlyOnRestart ==
    /\ [][\A i \in Recorded :
            ~LeqStats(parse_log_stats(i), parse_log_stats(i)') =>
                /\ InRestart(i)
                /\ pc = "rw_clean"
                /\ ~Alive(i, Handle(i))
                /\ parse_log_stats(i)' = Zero]_vars
    /\ [][\A i \in AllSlots :
            (log'[i] = Zero /\ log[i] # Zero) => log[i] = NoLog]_vars
    /\ [][\A i \in AllSlots : \A g \in Gens : LeqStats(jobs[i][g], jobs'[i][g])]_vars
    /\ [](MonitorReads =>
            \A i \in Recorded : parse_log_stats(i) = jobs[i][Handle(i)])
    /\ [][EndRestart =>
            \A w \in Slots : w = cur =>
                /\ log[w] \in {NoLog, jobs[w][new_proc]}
                /\ parse_log_stats(w)' = jobs[w][new_proc]]_vars

\* C23 witness: a worker was restarted on a failure it had printed; its new
\* process has printed one success since, and that success alone is what the
\* monitor reads.
C23_Witness ==
    /\ pc = "check"
    /\ restart_threshold = 1
    /\ \E i \in Slots :
          /\ worker_restarts[i] = 1
          /\ worker_cumulative[i] = Stats(0, 1)
          /\ jobs[i][1] = Stats(0, 1)
          /\ jobs[i][2] = Stats(1, 0)
          /\ parse_log_stats(i) = Stats(1, 0)

\* The supervisor executes a statement of restart_worker(cur): every step
\* of it moves pc, but a failed attempt of the removal, which counts attempt.
RestartStep ==
    /\ RestartRank(pc) > 0
    /\ pc' # "cl_terminate"
    /\ <<pc, attempt>>' # <<pc, attempt>>

\* C24: no statement of restart_worker(i), one that raises included, changes
\* anything of another worker j: its handle, restart count and cumulative
\* counts, its profile directory and the files held in it, its log, and the
\* state of, the signals pending on and the tokens printed by each of its
\* processes.
C24_RestartTouchesOneWorker ==
    [][RestartStep =>
         \A j \in Slots : j # cur =>
             /\ worker_processes'[j] = worker_processes[j]
             /\ worker_restarts'[j] = worker_restarts[j]
             /\ worker_cumulative'[j] = worker_cumulative[j]
             /\ profile'[j] = profile[j]
             /\ locked'[j] = locked[j]
             /\ log'[j] = log[j]
             /\ proc'[j] = proc[j]
             /\ sig'[j] = sig[j]
             /\ jobs'[j] = jobs[j]]_vars

\* C24 witness: of two workers the first was restarted on a failure and the
\* restart has returned; the second, never restarted and never signalled, is
\* running its first process on its profile and has printed a success.
C24_Witness ==
    /\ num_workers = 2
    /\ restart_threshold = 1
    /\ pc = "check"
    /\ cur = 2
    /\ restarted = <<1>>
    /\ worker_cumulative = <<Stats(0, 1), Zero>>
    /\ worker_restarts = <<1, 0>>
    /\ worker_processes = <<2, 1>>
    /\ proc[2][1] = "running"
    /\ sig[2][1] = "none"
    /\ profile[2] = "used"
    /\ log[2] = Stats(1, 0)

\* C25 (as claimed): the decision of check_and_restart_workers on a worker
\* is a function of its live counts alone.  A worker whose live rate,
\* success * 100 / total (100% on zero samples), is at least
\* min_success_rate is not restarted, and a worker whose live total is at
\* least restart_threshold and whose live rate is below min_success_rate is
\* restarted, whatever its cumulative counts and so its effective rate.
C25_DecisionOnLiveCountsOnly ==
    [][EvaluateStep =>
         LET s == parse_log_stats(cur)
             below == Total(s) > 0 /\ s.success * 100 < min_success_rate * Total(s)
         IN /\ ~below => pc' # "rw_fold"
            /\ (Total(s) >= restart_threshold /\ below) => pc' = "rw_fold"]_vars

====
